---- MODULE Spec2Model ----
(***************************************************************************)
(* Embedding and semantic search service (processing/embed_sentences.py).  *)
(*                                                                         *)
(* The state is the three module globals (model, faiss_index, metadata),   *)
(* the two persisted files (FAISS_INDEX_PATH, METADATA_PATH), the request  *)
(* being served and the response last sent.  Vectors are integer           *)
(* sequences of length embedding_dim (384 in the source, scaled down       *)
(* here); squared L2 distances are exact integers and a similarity is      *)
(* kept in units of 1e-4, the precision round(..., 4) reports.             *)
(***************************************************************************)
EXTENDS Integers, Sequences, FiniteSets, TLC

VARIABLES
    model,          \* global model: None, or the instance number constructed
    faiss_index,    \* global faiss_index: [is_none, vectors]
    metadata,       \* global metadata: str(position) -> [transcript_id, video_id]
    index_file,     \* file at FAISS_INDEX_PATH: [exists, vectors]
    metadata_file,  \* file at METADATA_PATH: [exists, members]
    pc,             \* "idle", "save_metadata" (inside save_faiss_index), "responded"
    request,        \* the request being served
    response,       \* its response
    probe,          \* what the request did to the model: [loads, encodes]
    indexed,        \* the batch of the /index that succeeded just before the request
    constructed,    \* SentenceTransformer(...) executions in this process
    watched,        \* one assignment of a position made in this process, if any
    tpc,            \* per request thread: [op, at], its place inside get_model
    tlocal          \* per request thread: the instance get_model last returned

vars == <<model, faiss_index, metadata, index_file, metadata_file, pc,
          request, response, probe, indexed, constructed, watched, tpc,
          tlocal>>

-----------------------------------------------------------------------------
(* Bounds of the model *)

\* embedding_dim of get_faiss_index / clear_index (384 in the source)
embedding_dim == 2
\* most vectors the index may hold
MaxVectors == 2
\* longest embeddings / segments list of one request
MaxBatch == 2
\* largest explicit top_k of a /search
MaxTopK == 1
\* request threads of the serving layer
NThreads == 2

\* Python's None (data.get("video_id") of an absent key, model = None)
None == -1

\* top_k = data.get("top_k", 10)
DefaultTopK == 10
\* search_k = min(top_k * 10, index.ntotal) when filtering
Widen == 10
\* round(float(similarity), 4): similarities are kept in units of 1e-4
SimScale == 10000

Coords == {0, 142}
Vec(c) == [i \in 1..embedding_dim |-> c]
Vectors == {Vec(c) : c \in Coords}
TranscriptIds == {1, 2}
\* video_id of a /index body; a /search may also leave it out (None)
VideoIds == {0, 7}
Texts == {"alpha", "gamma", "omega"}
TopKs == (1..MaxTopK) \cup {DefaultTopK}
Threads == 1..NThreads

-----------------------------------------------------------------------------
(* Pure helpers *)

Min(a, b) == IF a <= b THEN a ELSE b

\* Python truthiness of a video_id: None and 0 are falsy
Truthy(v) == v # None /\ v # 0

Digits == <<"0", "1", "2", "3", "4", "5", "6", "7", "8", "9">>

\* str(faiss_idx) of a non-negative integer
RECURSIVE str(_)
str(n) == IF n < 10 THEN Digits[n + 1]
          ELSE str(n \div 10) \o Digits[(n % 10) + 1]

\* squared Euclidean distance of IndexFlatL2
RECURSIVE SumSq(_, _, _)
SumSq(a, b, i) == IF i = 0 THEN 0
                  ELSE (a[i] - b[i]) * (a[i] - b[i]) + SumSq(a, b, i - 1)
L2(a, b) == SumSq(a, b, Len(a))

\* round(num / den, 4) in units of 1e-4, ties to even as Python's round
RoundHalfEven(num, den) ==
    LET q == (num * SimScale) \div den
        r == (num * SimScale) % den
    IN  IF 2 * r < den THEN q
        ELSE IF 2 * r > den THEN q + 1
        ELSE IF q % 2 = 0 THEN q ELSE q + 1

\* a slip: similarity taken as 1 - dist
SimilarityLinear(dist) == (1 - dist) * SimScale

\* similarity = 1 / (1 + dist); round(float(similarity), 4)
Similarity(dist) == RoundHalfEven(1, 1 + dist)

\* embedding_model.encode([text]): the model is a fixed function of the text
encode(text) == IF text = "alpha" THEN Vec(0)
                ELSE IF text = "omega" THEN Vec(142) ELSE Vec(1)

-----------------------------------------------------------------------------
(* The vector index, the metadata mapping and their files *)

NoIndex == [is_none |-> TRUE, vectors |-> <<>>]
\* faiss.IndexFlatL2(embedding_dim)
IndexFlatL2 == [is_none |-> FALSE, vectors |-> <<>>]
ntotal(ix) == Len(ix.vectors)

EmptyMetadata == [k \in {} |-> None]
NoIndexFile == [exists |-> FALSE, vectors |-> <<>>]
NoMetadataFile == [exists |-> FALSE, members |-> {}]

\* faiss.write_index(faiss_index, FAISS_INDEX_PATH)
write_index(ix) == [exists |-> TRUE, vectors |-> ix.vectors]
\* faiss.read_index(FAISS_INDEX_PATH)
read_index(f) == [is_none |-> FALSE, vectors |-> f.vectors]

\* json.dump(metadata, f): one member per key of the dict
json_dump(md) ==
    [exists |-> TRUE,
     members |-> {[key |-> k, transcript_id |-> md[k].transcript_id,
                   video_id |-> md[k].video_id] : k \in DOMAIN md}]
\* json.load(f)
json_load(f) ==
    [k \in {m.key : m \in f.members} |->
        LET m == CHOOSE m \in f.members : m.key = k
        IN  [transcript_id |-> m.transcript_id, video_id |-> m.video_id]]

\* get_faiss_index(): the globals (faiss_index, metadata) after the call
get_faiss_index(ix, md, ifile, mfile) ==
    IF ~ix.is_none THEN [faiss_index |-> ix, metadata |-> md]
    ELSE IF ifile.exists
         THEN [faiss_index |-> read_index(ifile),
               metadata |-> IF mfile.exists THEN json_load(mfile) ELSE md]
         ELSE [faiss_index |-> IndexFlatL2, metadata |-> md]

\* get_model(): the global model after the call, n instances built before it
get_model(m, n) == IF m = None THEN n + 1 ELSE m
\* the constructor ran inside get_model
Loads(m) == IF m = None THEN 1 ELSE 0

-----------------------------------------------------------------------------
(* Requests and responses *)

Req(op, has_key, video_id, items, query, top_k) ==
    [op |-> op, has_key |-> has_key, video_id |-> video_id, items |-> items,
     query |-> query, top_k |-> top_k]
NoArgs(op) == Req(op, FALSE, None, <<>>, "", 0)

Resp(status, results, distances, embeddings, total) ==
    [status |-> status, results |-> results, distances |-> distances,
     embeddings |-> embeddings, total |-> total]
Plain(status) == Resp(status, <<>>, <<>>, <<>>, 0)
\* no response yet: the handler is inside save_faiss_index
Pending == Plain(0)

NoProbe == [loads |-> 0, encodes |-> 0]
\* a request thread with no request
Waiting == [op |-> "none", at |-> "idle"]
NoBatch == [present |-> FALSE, video_id |-> None, items |-> <<>>]
NotWatching ==
    [present |-> FALSE, pos |-> 0, transcript_id |-> None, video_id |-> None,
     stale |-> FALSE]

\* {"id": .., "embedding": ..} records of a /index body; either key may be missing
Records ==
    {[has_id |-> TRUE, id |-> t, has_embedding |-> TRUE, embedding |-> v] :
        t \in TranscriptIds, v \in Vectors}
    \cup {[has_id |-> FALSE, id |-> None, has_embedding |-> TRUE,
            embedding |-> Vec(0)]}
    \cup {[has_id |-> TRUE, id |-> 1, has_embedding |-> FALSE, embedding |-> <<>>]}
\* {"id": .., "text": ..} segments of a /embed body
Segments == {[id |-> t, text |-> x] : t \in TranscriptIds, x \in Texts}

SeqsUpTo(S, n) == UNION {[1..k -> S] : k \in 0..n}

-----------------------------------------------------------------------------
(* Process start *)

\* Module import (lines 22-24): the globals of a process that has run nothing
Imported ==
    [model |-> None, faiss_index |-> NoIndex, metadata |-> EmptyMetadata,
     constructed |-> 0]

\* __main__ (lines 318-325): get_model() and get_faiss_index() before serving
PreLoaded(ifile, mfile) ==
    LET g == get_faiss_index(NoIndex, EmptyMetadata, ifile, mfile)
    IN  [model |-> get_model(None, 0), faiss_index |-> g.faiss_index,
         metadata |-> g.metadata, constructed |-> 1]

\* a process started as a script pre-loads; one imported by a server loads lazily
Started(preload, ifile, mfile) ==
    IF preload THEN PreLoaded(ifile, mfile) ELSE Imported

Boot(preload) ==
    LET g == Started(preload, index_file, metadata_file)
    IN  /\ model' = g.model
        /\ faiss_index' = g.faiss_index
        /\ metadata' = g.metadata
        /\ constructed' = g.constructed
        /\ pc' = "idle"
        /\ request' = NoArgs("none")
        /\ response' = Pending
        /\ probe' = NoProbe
        /\ indexed' = NoBatch
        /\ watched' = NotWatching
        /\ tpc' = [t \in Threads |-> Waiting]
        /\ tlocal' = [t \in Threads |-> None]
        /\ UNCHANGED <<index_file, metadata_file>>

Init ==
    \E preload \in BOOLEAN :
        LET g == Started(preload, NoIndexFile, NoMetadataFile)
        IN  /\ model = g.model
            /\ faiss_index = g.faiss_index
            /\ metadata = g.metadata
            /\ constructed = g.constructed
            /\ index_file = NoIndexFile
            /\ metadata_file = NoMetadataFile
            /\ pc = "idle"
            /\ request = NoArgs("none")
            /\ response = Pending
            /\ probe = NoProbe
            /\ indexed = NoBatch
            /\ watched = NotWatching
            /\ tpc = [t \in Threads |-> Waiting]
            /\ tlocal = [t \in Threads |-> None]

\* the process is stopped between two requests and started again
Restart == /\ pc = "idle"
           /\ \E preload \in BOOLEAN : Boot(preload)

\* the process dies between faiss.write_index and json.dump (lines 70-73)
Crash == /\ pc = "save_metadata"
         /\ \E preload \in BOOLEAN : Boot(preload)

-----------------------------------------------------------------------------
(* save_faiss_index, lines 61-76 *)

\* lines 65-70: the index file is written first; the handler goes on to json.dump
save_faiss_index ==
    /\ index_file' = IF faiss_index'.is_none THEN index_file
                     ELSE write_index(faiss_index')
    /\ IF faiss_index'.is_none
       THEN /\ pc' = "responded"
            /\ response' = Plain(200)
       ELSE /\ pc' = "save_metadata"
            /\ response' = Pending
    /\ UNCHANGED metadata_file

\* lines 73-76, then the rest of the handler (lines 202-209, 313)
SaveMetadata ==
    /\ pc = "save_metadata"
    /\ metadata_file' = json_dump(metadata)
    /\ pc' = "responded"
    /\ response' = IF request.op = "index"
                   THEN Resp(200, <<>>, <<>>, <<>>, ntotal(faiss_index))
                   ELSE Plain(200)
    /\ UNCHANGED <<model, faiss_index, metadata, index_file, request, probe,
                   indexed, constructed, watched, tpc, tlocal>>

-----------------------------------------------------------------------------
(* GET /health, lines 79-89 *)

health ==
    /\ pc = "idle"
    /\ LET g == get_faiss_index(faiss_index, metadata, index_file, metadata_file)
       IN  /\ faiss_index' = g.faiss_index
           /\ metadata' = g.metadata
           /\ response' = Resp(200, <<>>, <<>>, <<>>, ntotal(g.faiss_index))
    /\ request' = NoArgs("health")
    /\ probe' = NoProbe
    /\ pc' = "responded"
    /\ UNCHANGED <<model, index_file, metadata_file, indexed, constructed,
                   watched, tpc, tlocal>>

-----------------------------------------------------------------------------
(* POST /embed, lines 92-148 *)

\* lines 128-139: one embedding per segment, in order, with the segment's id
Embeddings(segments) ==
    [i \in 1..Len(segments) |->
        [id |-> segments[i].id, embedding |-> encode(segments[i].text)]]

embed ==
    /\ pc = "idle"
    /\ \E has_key \in BOOLEAN, segments \in SeqsUpTo(Segments, MaxBatch) :
        /\ has_key \/ segments = <<>>
        /\ request' = Req("embed", has_key, None, segments, "", 0)
        /\ IF ~has_key
           THEN /\ response' = Plain(400)
                /\ probe' = NoProbe
                /\ UNCHANGED <<model, constructed>>
           ELSE IF segments = <<>>
           THEN /\ response' = Plain(200)
                /\ probe' = NoProbe
                /\ UNCHANGED <<model, constructed>>
           ELSE /\ model' = get_model(model, constructed)
                /\ constructed' = constructed + Loads(model)
                /\ probe' = [loads |-> Loads(model), encodes |-> 1]
                /\ response' = Resp(200, <<>>, <<>>, Embeddings(segments), 0)
    /\ pc' = "responded"
    /\ UNCHANGED <<faiss_index, metadata, index_file, metadata_file, indexed,
                   watched, tpc, tlocal>>

-----------------------------------------------------------------------------
(* POST /index, lines 151-214 *)

\* a slip: the batch is numbered from 0, without the offset
StartIdxZero(ix) == 0

\* line 186: start_idx = index.ntotal
StartIdx(ix) == ntotal(ix)

\* lines 183, 189: index.add(vectors) appends the batch in input order
AddVectors(ix, items) ==
    [is_none |-> FALSE,
     vectors |-> ix.vectors \o [i \in 1..Len(items) |-> items[i].embedding]]

\* lines 192-197: metadata[str(start_idx + i)] for the first n records
RecordMetadata(md, items, start_idx, video_id, n) ==
    LET new == {str(start_idx + i - 1) : i \in 1..n}
        at(k) == CHOOSE i \in 1..n : str(start_idx + i - 1) = k
    IN  [k \in DOMAIN md \cup new |->
            IF k \in new
            THEN [transcript_id |-> items[at(k)].id, video_id |-> video_id]
            ELSE md[k]]

\* the records the loop of lines 192-197 passes before emb["id"] raises
Recorded(items) ==
    IF \E i \in 1..Len(items) : ~items[i].has_id
    THEN (CHOOSE i \in 1..Len(items) :
            /\ ~items[i].has_id
            /\ \A j \in 1..(i - 1) : items[j].has_id) - 1
    ELSE Len(items)

\* The assignments metadata[str(pos)] = entry the loop makes.  watched holds
\* one assignment of this process, picked when it is made (any one may be
\* picked, so what holds of watched holds of every assignment); stale says
\* that a /clear has run since.
Assignments(items, start_idx, video_id, n) ==
    {[present |-> TRUE, pos |-> start_idx + i - 1, transcript_id |-> items[i].id,
      video_id |-> video_id, stale |-> FALSE] : i \in 1..n}

index_embeddings ==
    /\ pc = "idle"
    /\ \E has_key \in BOOLEAN, video_id \in VideoIds,
          items \in SeqsUpTo(Records, MaxBatch) :
        /\ has_key \/ items = <<>>
        /\ request' = Req("index", has_key, video_id, items, "", 0)
        /\ probe' = NoProbe
        /\ IF ~has_key
           THEN \* line 171
                /\ response' = Plain(400)
                /\ pc' = "responded"
                /\ UNCHANGED <<faiss_index, metadata, index_file, metadata_file,
                               watched>>
           ELSE IF items = <<>>
           THEN \* line 177
                /\ response' = Plain(200)
                /\ pc' = "responded"
                /\ UNCHANGED <<faiss_index, metadata, index_file, metadata_file,
                               watched>>
           ELSE LET g == get_faiss_index(faiss_index, metadata, index_file,
                                         metadata_file)
                    start_idx == StartIdx(g.faiss_index)
                    n == Recorded(items)
                IN  IF \E i \in 1..Len(items) : ~items[i].has_embedding
                    THEN \* line 183 raises KeyError: 500
                         /\ faiss_index' = g.faiss_index
                         /\ metadata' = g.metadata
                         /\ response' = Plain(500)
                         /\ pc' = "responded"
                         /\ UNCHANGED <<index_file, metadata_file, watched>>
                    ELSE /\ ntotal(g.faiss_index) + Len(items) <= MaxVectors
                         /\ faiss_index' = AddVectors(g.faiss_index, items)
                         /\ metadata' = RecordMetadata(g.metadata, items,
                                                       start_idx, video_id, n)
                         /\ watched' \in {watched} \cup
                                (IF watched.present THEN {}
                                 ELSE Assignments(items, start_idx, video_id, n))
                         /\ IF n < Len(items)
                            THEN \* line 195 raises KeyError: 500, nothing saved
                                 /\ response' = Plain(500)
                                 /\ pc' = "responded"
                                 /\ UNCHANGED <<index_file, metadata_file>>
                            ELSE save_faiss_index
    /\ UNCHANGED <<model, indexed, constructed, tpc, tlocal>>

-----------------------------------------------------------------------------
(* POST /clear, lines 302-315 *)

clear_index ==
    /\ pc = "idle"
    /\ faiss_index' = IndexFlatL2
    /\ metadata' = EmptyMetadata
    /\ request' = NoArgs("clear")
    /\ probe' = NoProbe
    /\ watched' = [watched EXCEPT !.stale = watched.present]
    /\ save_faiss_index
    /\ UNCHANGED <<model, indexed, constructed, tpc, tlocal>>

-----------------------------------------------------------------------------
(* POST /search, lines 217-299 *)

\* lines 259-261
SearchK(video_id, top_k, n) ==
    IF Truthy(video_id) THEN Min(top_k * Widen, n) ELSE Min(top_k, n)

\* index.search(query_vector, search_k): the positions of the k nearest
\* vectors by increasing distance; the order of equidistant vectors, and which
\* of them make the cut, is the library's choice
Hits(vectors, q, k) ==
    {h \in [1..k -> 0..(Len(vectors) - 1)] :
        /\ \A i, j \in 1..k : i # j => h[i] # h[j]
        /\ \A i, j \in 1..k : i < j => L2(vectors[h[i] + 1], q) <= L2(vectors[h[j] + 1], q)
        /\ \A p \in 0..(Len(vectors) - 1) :
              (\A i \in 1..k : h[i] # p) =>
                 \A i \in 1..k : L2(vectors[h[i] + 1], q) <= L2(vectors[p + 1], q)}

\* a slip: the query is encoded before the empty-index return
EncodedBeforeCheck(n) == 1

\* lines 251-255: encode runs once, after the empty-index return
Encoded(n) == IF n = 0 THEN 0 ELSE 1

\* a slip: == for != in the filter
FilteredOutSame(video_id, meta) == Truthy(video_id) /\ meta.video_id = video_id

\* line 276: the entry is dropped by the video filter
FilteredOut(video_id, meta) == Truthy(video_id) /\ meta.video_id # video_id

\* lines 283-289
Result(meta, dist) ==
    [transcript_id |-> meta.transcript_id, video_id |-> meta.video_id,
     similarity |-> Similarity(dist)]

\* lines 266-292: the loop over zip(distances[0], indices[0]) from hit i on
RECURSIVE Collect(_, _, _, _, _, _, _, _)
Collect(h, i, results, vectors, q, md, video_id, top_k) ==
    IF i > Len(h) THEN results
    ELSE LET key == str(h[i])
         IN  IF key \notin DOMAIN md
             THEN Collect(h, i + 1, results, vectors, q, md, video_id, top_k)
             ELSE IF FilteredOut(video_id, md[key])
             THEN Collect(h, i + 1, results, vectors, q, md, video_id, top_k)
             ELSE LET r == Append(results,
                                  Result(md[key], L2(vectors[h[i] + 1], q)))
                  IN  IF Len(r) >= top_k THEN r
                      ELSE Collect(h, i + 1, r, vectors, q, md, video_id, top_k)

search ==
    /\ pc = "idle"
    /\ \E has_key \in BOOLEAN, query \in Texts, video_id \in {None} \cup VideoIds,
          top_k \in TopKs :
        /\ request' = Req("search", has_key, video_id, <<>>,
                          IF has_key THEN query ELSE "", top_k)
        /\ IF ~has_key
           THEN \* line 241
                /\ response' = Plain(400)
                /\ probe' = NoProbe
                /\ UNCHANGED <<model, constructed, faiss_index, metadata>>
           ELSE LET g == get_faiss_index(faiss_index, metadata, index_file,
                                         metadata_file)
                    n == ntotal(g.faiss_index)
                    q == encode(query)
                IN  /\ model' = get_model(model, constructed)
                    /\ constructed' = constructed + Loads(model)
                    /\ faiss_index' = g.faiss_index
                    /\ metadata' = g.metadata
                    /\ probe' = [loads |-> Loads(model), encodes |-> Encoded(n)]
                    /\ IF n = 0
                       THEN \* line 252
                            response' = Plain(200)
                       ELSE \E h \in Hits(g.faiss_index.vectors, q,
                                        SearchK(video_id, top_k, n)) :
                                response' =
                                    Resp(200,
                                         Collect(h, 1, <<>>, g.faiss_index.vectors,
                                                 q, g.metadata, video_id, top_k),
                                         [i \in 1..Len(h) |->
                                            L2(g.faiss_index.vectors[h[i] + 1], q)],
                                         <<>>, 0)
    /\ pc' = "responded"
    /\ UNCHANGED <<index_file, metadata_file, indexed, watched, tpc, tlocal>>

-----------------------------------------------------------------------------
(* The service, one request at a time *)

\* the response is sent and the server waits for the next request (line 330)
Served ==
    /\ pc = "responded"
    /\ pc' = "idle"
    /\ indexed' = IF request.op = "index" /\ response.status = 200
                  THEN [present |-> TRUE, video_id |-> request.video_id,
                        items |-> request.items]
                  ELSE NoBatch
    /\ request' = NoArgs("none")
    /\ response' = Pending
    /\ probe' = NoProbe
    /\ UNCHANGED <<model, faiss_index, metadata, index_file, metadata_file,
                   constructed, watched, tpc, tlocal>>

Next ==
    \/ health
    \/ embed
    \/ index_embeddings
    \/ SaveMetadata
    \/ clear_index
    \/ search
    \/ Served
    \/ Restart
    \/ Crash

Spec == Init /\ [][Next]_vars

-----------------------------------------------------------------------------
(* get_model under concurrent requests, lines 27-34 *)

\* a request thread takes a /embed or /search and reaches get_model
\* (lines 125, 248)
Accept(t) ==
    /\ tpc[t].at = "idle"
    /\ \E op \in {"embed", "search"} :
        tpc' = [tpc EXCEPT ![t] = [op |-> op, at |-> "if_none"]]
    /\ UNCHANGED <<model, faiss_index, metadata, index_file, metadata_file, pc,
                   request, response, probe, indexed, constructed, watched,
                   tlocal>>

\* line 30: if model is None
IfNone(t) ==
    /\ tpc[t].at = "if_none"
    /\ tpc' = [tpc EXCEPT ![t].at = IF model = None THEN "construct"
                                   ELSE "return"]
    /\ UNCHANGED <<model, faiss_index, metadata, index_file, metadata_file, pc,
                   request, response, probe, indexed, constructed, watched,
                   tlocal>>

\* line 32: model = SentenceTransformer(EMBEDDING_MODEL)
Construct(t) ==
    /\ tpc[t].at = "construct"
    /\ constructed' = constructed + 1
    /\ model' = constructed + 1
    /\ tpc' = [tpc EXCEPT ![t].at = "return"]
    /\ UNCHANGED <<faiss_index, metadata, index_file, metadata_file, pc,
                   request, response, probe, indexed, watched, tlocal>>

\* line 34: return model
Return(t) ==
    /\ tpc[t].at = "return"
    /\ tlocal' = [tlocal EXCEPT ![t] = model]
    /\ tpc' = [tpc EXCEPT ![t].at = "encode"]
    /\ UNCHANGED <<model, faiss_index, metadata, index_file, metadata_file, pc,
                   request, response, probe, indexed, constructed, watched>>

\* the rest of the handler uses the instance it was given (lines 134, 255)
\* and the thread takes the next request
Encode(t) ==
    /\ tpc[t].at = "encode"
    /\ tpc' = [tpc EXCEPT ![t] = Waiting]
    /\ UNCHANGED <<model, faiss_index, metadata, index_file, metadata_file, pc,
                   request, response, probe, indexed, constructed, watched,
                   tlocal>>

NextConc ==
    \E t \in Threads :
        \/ Accept(t)
        \/ IfNone(t)
        \/ Construct(t)
        \/ Return(t)
        \/ Encode(t)

SpecConc == Init /\ [][NextConc]_vars

-----------------------------------------------------------------------------
(* Properties *)

Responded(op) == pc = "responded" /\ request.op = op
Positions(n) == {str(i) : i \in 0..(n - 1)}
Tids(results) == {results[i].transcript_id : i \in 1..Len(results)}
\* the index and metadata a handler of the process works on
\* (what get_faiss_index hands it)
Seen == get_faiss_index(faiss_index, metadata, index_file, metadata_file)
SeenNext == get_faiss_index(faiss_index', metadata', index_file', metadata_file')

\* C1: after every completed request or restart the metadata has as many
\* entries as the index has vectors, and its keys are the positions
\* 0..ntotal-1.
C1_MetadataMatchesIndex ==
    (pc # "save_metadata" /\ ~faiss_index.is_none) =>
        /\ Cardinality(DOMAIN metadata) = ntotal(faiss_index)
        /\ DOMAIN metadata = Positions(ntotal(faiss_index))

\* C2: at every point of an execution the index file and the metadata file
\* describe the same index state: both exist or neither, and the metadata
\* file's keys are the positions of the index file's vectors.
C2_FilesArePair ==
    /\ index_file.exists = metadata_file.exists
    /\ DOMAIN json_load(metadata_file) = Positions(Len(index_file.vectors))

\* C3: a restart between two requests reloads what the process held: the
\* index the new process works on (whose size /health reports) has as many
\* vectors as the old one's, and the same metadata.
C3_RestartRoundTrip ==
    [][(pc = "idle" /\ pc' = "idle") =>
          /\ ntotal(SeenNext.faiss_index) = ntotal(Seen.faiss_index)
          /\ SeenNext.metadata = Seen.metadata]_vars

\* C4 as claimed: a /search on an index of zero vectors returns no results
\* and neither loads the model nor asks it to encode.
C4_EmptySearchLeavesModelAlone ==
    (Responded("search") /\ request.has_key /\ ntotal(faiss_index) = 0) =>
        /\ response.status = 200
        /\ response.results = <<>>
        /\ probe.loads = 0
        /\ probe.encodes = 0

\* C4 as amended: a /search on an index of zero vectors returns no results
\* and does not ask the model to encode; get_model has run, so the model is
\* loaded once the request is over.
C4_EmptySearchDoesNotEncode ==
    (Responded("search") /\ request.has_key /\ ntotal(faiss_index) = 0) =>
        /\ response.status = 200
        /\ response.results = <<>>
        /\ probe.encodes = 0
        /\ model # None

C4_Witness ==
    /\ Responded("search")
    /\ request.has_key
    /\ ntotal(faiss_index) = 0
    /\ index_file.exists
    /\ probe.loads = 1

\* C5 as claimed: a position that was given an entry in this process is
\* never given a different entry later in the process.
C5_PositionNeverReused ==
    (watched.present /\ str(watched.pos) \in DOMAIN metadata) =>
        /\ metadata[str(watched.pos)].transcript_id = watched.transcript_id
        /\ metadata[str(watched.pos)].video_id = watched.video_id

\* C5 as amended: until the next /clear or the end of the process, a position
\* that was given an entry keeps it, and later /index calls use higher
\* positions.
C5_PositionKeptUntilClear ==
    (watched.present /\ ~watched.stale) =>
        /\ str(watched.pos) \in DOMAIN metadata
        /\ metadata[str(watched.pos)].transcript_id = watched.transcript_id
        /\ metadata[str(watched.pos)].video_id = watched.video_id
        /\ watched.pos < ntotal(faiss_index)

C5_Witness ==
    /\ Responded("index")
    /\ response.status = 200
    /\ watched.present
    /\ ~watched.stale
    /\ watched.pos = 0
    /\ Len(request.items) = 1
    /\ ntotal(faiss_index) = 2
    /\ metadata["1"].transcript_id # watched.transcript_id

\* the filter of a /search does not conflict with an item's video_id
NoConflict(filter, video_id) == filter = None \/ filter = video_id
\* the vectors of the index at distance 0 from v
Copies(ix, v) == {p \in 1..ntotal(ix) : L2(ix.vectors[p], v) = 0}

\* C6 as claimed: a /search right after a successful /index, whose query
\* embeds to the vector of an item of that batch and whose filter does not
\* conflict with the batch's video_id, returns the item's transcript_id.
C6_IndexedItemFound ==
    (Responded("search") /\ request.has_key /\ indexed.present) =>
        \A i \in 1..Len(indexed.items) :
            (/\ encode(request.query) = indexed.items[i].embedding
             /\ request.top_k >= 1
             /\ NoConflict(request.video_id, indexed.video_id))
            => indexed.items[i].id \in Tids(response.results)

\* C6 as amended: the same, provided fewer than top_k other vectors of the
\* index lie at distance 0 from the item's vector.
C6_IndexedItemFoundUnlessCopies ==
    (Responded("search") /\ request.has_key /\ indexed.present) =>
        \A i \in 1..Len(indexed.items) :
            (/\ encode(request.query) = indexed.items[i].embedding
             /\ request.top_k >= 1
             /\ NoConflict(request.video_id, indexed.video_id)
             /\ Cardinality(Copies(faiss_index, indexed.items[i].embedding)) - 1
                    < request.top_k)
            => indexed.items[i].id \in Tids(response.results)

C6_Witness ==
    /\ Responded("search")
    /\ request.has_key
    /\ indexed.present
    /\ Len(indexed.items) = 1
    /\ ntotal(faiss_index) = 2
    /\ request.video_id = indexed.video_id
    /\ request.top_k = 1
    /\ encode(request.query) = indexed.items[1].embedding
    /\ faiss_index.vectors[1] # indexed.items[1].embedding
    /\ Tids(response.results) = {indexed.items[1].id}

\* C7: the model constructor runs at most once in a process and every
\* request is handed the same instance.
C7_ModelConstructedOnce ==
    /\ constructed <= 1
    /\ \A t, u \in Threads :
          (tlocal[t] # None /\ tlocal[u] # None) => tlocal[t] = tlocal[u]

\* C8: a /search that supplies a video_id (0 included) returns at most top_k
\* results, each of that video_id.
C8_FilterRespected ==
    (Responded("search") /\ request.has_key /\ request.video_id # None) =>
        /\ Len(response.results) <= request.top_k
        /\ \A i \in 1..Len(response.results) :
              response.results[i].video_id = request.video_id

\* C9 as claimed: every reported similarity is in (0, 1], i.e. between
\* 0.0001 and 1 after rounding to 4 decimals.
C9_SimilarityPositive ==
    Responded("search") =>
        \A i \in 1..Len(response.results) :
            response.results[i].similarity \in 1..SimScale

\* C9 as amended: every reported similarity is in [0, 1]; 0.0 is reported
\* only for a distance of at least 19999 (1 / (1 + d) <= 0.00005).
C9_SimilarityInClosedUnit ==
    Responded("search") =>
        \A i \in 1..Len(response.results) :
            /\ response.results[i].similarity \in 0..SimScale
            /\ response.results[i].similarity = 0 =>
                  \E j \in 1..Len(response.distances) :
                      response.distances[j] >= 2 * SimScale - 1

C9_Witness ==
    /\ Responded("search")
    /\ \E i \in 1..Len(response.results) : response.results[i].similarity = 0
    /\ \E i \in 1..Len(response.results) :
          response.results[i].similarity = SimScale

\* C10: a /index that answers 400 or 500 leaves the index and the metadata
\* the process works on, and both files, as they were.
C10_FailedIndexChangesNothing ==
    [][(pc = "idle" /\ pc' = "responded" /\ request'.op = "index"
          /\ response'.status \in {400, 500}) =>
          /\ SeenNext.faiss_index.vectors = Seen.faiss_index.vectors
          /\ SeenNext.metadata = Seen.metadata
          /\ index_file' = index_file
          /\ metadata_file' = metadata_file]_vars

====
